---------------------------- MODULE Spec2Model ----------------------------
(***************************************************************************)
(* Model of the language-learning agent.                                   *)
(*                                                                         *)
(*   src/main.py         the LangGraph state graph: the assistant node,    *)
(*                       the prebuilt ToolNode, tools_condition, and the   *)
(*                       single turn that main() runs through ainvoke      *)
(*   src/agent/tools.py  the four tools: get_n_random_words,               *)
(*                       get_n_random_words_by_difficulty_level,           *)
(*                       translate_words, create_anki_stack                *)
(*                                                                         *)
(* The graph is driven by the library's Pregel loop.  main() passes no     *)
(* config to ainvoke, so the library's default recursion limit applies,    *)
(* and ToolNode(tools) is built with the library's default error handler.  *)
(* Two library builds differ in that default: one converts every exception *)
(* of a tool into an error ToolMessage, the other converts only argument   *)
(* validation errors and re-raises the rest.  The build is a parameter of  *)
(* the initial state (handle_all).  The tools handed to ToolNode and bound  *)
(* to the model are the three local tools and whatever tools the MCP       *)
(* server offers when setup_tools asks it; what it offers is a parameter   *)
(* of the initial state too (mcp_tools).                                   *)
(***************************************************************************)
EXTENDS Integers, Sequences, FiniteSets, TLC

VARIABLES
    messages,       \* AgentState["messages"]: the conversation
    slots,          \* AgentState's four optional fields
    next,           \* node the graph runs next: "assistant", "tools", "END"
    steps,          \* super-steps of the graph executed in this turn
    status,         \* "running", "done", "recursion_error", "tool_exception"
    inflight,       \* tool calls of the dispatch step in progress
    results,        \* per call index: its ToolMessage, or NoResult
    order,          \* call indexes in the order their executions completed
    failures,       \* tool executions that raised so far in this turn
    handle_all,     \* build: ToolNode's default handler converts every exception
    mcp_tools,      \* names of the tools client.get_tools() returned
    llm,            \* which language model answers: "varied" or "looping"
    twin,           \* a second turn on the same responses, started with other slots
    op,             \* tool function under check, or "none"
    catalog,        \* the file data/<language>/word-list-cleaned.json, or NoFile
    tool_args,      \* arguments of the tool function under check
    ret,            \* what the tool function returned (or that it raised)
    requests_log    \* requests.post calls made by create_anki_stack, in order

vars == <<messages, slots, next, steps, status, inflight, results, order,
          failures, handle_all, mcp_tools, llm, twin, op, catalog, tool_args, ret,
          requests_log>>

graph_vars == <<messages, slots, next, steps, status, inflight, results, order,
                failures, handle_all, mcp_tools, llm, twin>>

tool_vars == <<op, catalog, tool_args, ret, requests_log>>

-----------------------------------------------------------------------------
(* Bounds of the model *)

\* tool calls one model response carries at most
MaxCalls == 2
\* responses of the "varied" model that may carry tool calls; the next is final
MaxVaried == 1
\* tool executions that raise within one turn at most
MaxFailures == 1

\* langgraph's default recursion_limit, in force because ainvoke gets no config
DEFAULT_RECURSION_LIMIT == 25

None == "None"

-----------------------------------------------------------------------------
(* Messages *)

HumanMessage(i) ==
    [type |-> "human", id |-> i, tool_calls |-> <<>>, tool_call_id |-> 0,
     status |-> "success"]

AIMessage(i, calls) ==
    [type |-> "ai", id |-> i, tool_calls |-> calls, tool_call_id |-> 0,
     status |-> "success"]

\* the slot of a call whose execution has not completed
NoResult ==
    [type |-> "none", id |-> 0, tool_calls |-> <<>>, tool_call_id |-> 0,
     status |-> "pending"]

ToolMessage(call, st) ==
    [type |-> "tool", id |-> 0, tool_calls |-> <<>>, tool_call_id |-> call.id,
     status |-> st]

\* names of the local tools
local_tools ==
    {"get_n_random_words", "get_n_random_words_by_difficulty_level", "translate_words"}

\* what the MCP server may offer: nothing, or its deck and card tools
McpOffers == { {}, {"create_deck", "create_card"} }

\* setup_tools(): [*local_tools, *mcp_tools], handed to ToolNode and bind_tools
tools == local_tools \cup mcp_tools

\* the (name, arguments) shapes a model-issued tool call takes in this model;
\* create_deck names no tool of the graph when the MCP server offers none
CallShapes ==
    { [name |-> "get_n_random_words", args |-> "valid"],
      [name |-> "get_n_random_words", args |-> "invalid"],
      [name |-> "create_deck", args |-> "valid"] }

SeqsUpTo(S, n) == UNION { [1..k -> S] : k \in 0..n }

\* number of tool calls issued so far in the conversation
RECURSIVE CallsIssued(_)
CallsIssued(log) ==
    IF log = <<>> THEN 0
    ELSE Len(Head(log).tool_calls) + CallsIssued(Tail(log))

NumAI(log) == Cardinality({ i \in 1..Len(log) : log[i].type = "ai" })

\* the calls of a response, each given a fresh call id
WithIds(shapes, base) ==
    [ i \in 1..Len(shapes) |->
        [id |-> base + i, name |-> shapes[i].name, args |-> shapes[i].args] ]

\* what the language model may answer to the conversation so far
ModelResponses(log) ==
    IF llm = "looping"
    THEN { <<[name |-> "get_n_random_words", args |-> "valid"]>> }
    ELSE IF NumAI(log) < MaxVaried
         THEN SeqsUpTo(CallShapes, MaxCalls)
         ELSE { <<>> }

\* mutant: the messages field has no reducer, an update overwrites it
add_messages_Overwrite(left, right) == right

\* langgraph's add_messages reducer: a message whose id is already in the
\* conversation replaces that message, any other message is appended.  Every
\* message gets an id of its own (assigned when it lacks one).
RECURSIVE add_messages(_, _)
add_messages(left, right) ==
    IF right = <<>> THEN left
    ELSE LET m == IF Head(right).id = 0
                  THEN [Head(right) EXCEPT !.id = Len(left) + 1]
                  ELSE Head(right)
             hit == { i \in 1..Len(left) : left[i].id = m.id }
         IN  IF hit = {}
             THEN add_messages(Append(left, m), Tail(right))
             ELSE add_messages([left EXCEPT ![CHOOSE i \in hit : TRUE] = m], Tail(right))

\* mutant: the conditional edge always routes to the tool node
tools_condition_Always(log) == "tools"

\* langgraph's tools_condition: "tools" when the last message is an AI message
\* with tool calls, END otherwise
tools_condition(log) ==
    IF log[Len(log)].type = "ai" /\ Len(log[Len(log)].tool_calls) > 0
    THEN "tools"
    ELSE "END"

\* mutant: the loop never checks the recursion limit
StepAllowed_Unlimited == TRUE

\* the Pregel loop runs a node only while the recursion limit allows a step
StepAllowed == steps < DEFAULT_RECURSION_LIMIT

\* mutant: the assistant fills a slot from the conversation
assistant_slots_Extracted(state_slots) ==
    [source_language |-> "Spanish",
     number_of_words |-> state_slots.number_of_words,
     word_difficulty |-> state_slots.word_difficulty,
     target_language |-> state_slots.target_language]

\* the four slot entries of the assistant's return value: each is read from
\* the state and written back
assistant_slots(state_slots) ==
    [source_language |-> state_slots.source_language,
     number_of_words |-> state_slots.number_of_words,
     word_difficulty |-> state_slots.word_difficulty,
     target_language |-> state_slots.target_language]

\* mutant: the edge dispatches only once the word count slot is filled
conditional_edge_GatedBySlots(state) ==
    IF state.slots.number_of_words = None THEN "END"
    ELSE tools_condition(state.messages)

\* the conditional edge out of the assistant node: the library calls
\* tools_condition with the state, and it looks at the messages only
conditional_edge(state) == tools_condition(state.messages)

\* mutant: the tool node is followed by the tool node
tools_edge_Self == "tools"

\* the edge out of the tool node
tools_edge == "assistant"

-----------------------------------------------------------------------------
(* The turn *)

NoSlots ==
    [source_language |-> None, number_of_words |-> None,
     word_difficulty |-> None, target_language |-> None]

\* slot values a turn may be started with other than main()'s
TwinSlots ==
    { [source_language |-> "Spanish", number_of_words |-> "5",
       word_difficulty |-> "easy", target_language |-> "English"] }

IdleTurn ==
    [messages |-> <<>>, slots |-> NoSlots, next |-> "END", steps |-> 0,
     status |-> "idle"]

GraphIdle ==
    /\ twin = IdleTurn
    /\ messages = <<>>
    /\ slots = NoSlots
    /\ next = "END"
    /\ steps = 0
    /\ status = "idle"
    /\ inflight = <<>>
    /\ results = <<>>
    /\ order = <<>>
    /\ failures = 0
    /\ handle_all = TRUE
    /\ mcp_tools = {}
    /\ llm = "none"

NoFile == [exists |-> FALSE, word_list |-> <<>>]

NoCall == [kind |-> "none"]

ToolsIdle ==
    /\ op = "none"
    /\ catalog = NoFile
    /\ tool_args = NoCall
    /\ ret = NoCall
    /\ requests_log = <<>>

\* main(): one HumanMessage, the four slots None, START -> assistant
Init ==
    /\ messages = <<HumanMessage(1)>>
    /\ slots = NoSlots
    /\ next = "assistant"
    /\ steps = 0
    /\ status = "running"
    /\ inflight = <<>>
    /\ results = <<>>
    /\ order = <<>>
    /\ failures = 0
    /\ handle_all \in BOOLEAN
    /\ mcp_tools \in McpOffers
    /\ llm \in {"varied", "looping"}
    /\ \E other \in TwinSlots :
         twin = [messages |-> <<HumanMessage(1)>>, slots |-> other,
                 next |-> "assistant", steps |-> 0, status |-> "running"]
    /\ ToolsIdle

\* the twin turn is at this node and the recursion limit allows it a step
TwinDue(node) ==
    /\ twin.status = "running"
    /\ twin.next = node
    /\ twin.steps < DEFAULT_RECURSION_LIMIT

\* the twin's assistant step on the same model response
twin_assistant(reply) ==
    IF TwinDue("assistant")
    THEN LET log == add_messages(twin.messages, <<reply>>)
             kept == assistant_slots(twin.slots)
             edge == conditional_edge([messages |-> log, slots |-> kept])
         IN  [messages |-> log, slots |-> kept, next |-> edge,
              steps |-> twin.steps + 1,
              status |-> IF edge = "END" THEN "done" ELSE "running"]
    ELSE twin

\* the twin's tool step; the tools get the arguments of the calls and nothing
\* of the state, so the same calls give the same outputs
twin_tools(outputs) ==
    IF TwinDue("tools")
    THEN [twin EXCEPT !.messages = add_messages(twin.messages, outputs),
                      !.next = tools_edge,
                      !.steps = twin.steps + 1]
    ELSE twin

\* the twin's tool step when a tool's exception is re-raised
twin_tool_exception ==
    IF TwinDue("tools") THEN [twin EXCEPT !.status = "tool_exception"] ELSE twin

\* the twin's end when a node is due to it with the limit used up
twin_recursion_error ==
    IF twin.status = "running" /\ twin.next # "END"
         /\ ~(twin.steps < DEFAULT_RECURSION_LIMIT)
    THEN [twin EXCEPT !.status = "recursion_error"]
    ELSE twin

\* the assistant node, followed by the conditional edge out of it
Assistant ==
    /\ status = "running"
    /\ next = "assistant"
    /\ StepAllowed
    /\ \E shapes \in ModelResponses(messages) :
         LET reply == AIMessage(0, WithIds(shapes, CallsIssued(messages)))
             log == add_messages(messages, <<reply>>)
             edge == conditional_edge([messages |-> log,
                                       slots |-> assistant_slots(slots)])
         IN  /\ messages' = log
             /\ next' = edge
             /\ status' = IF edge = "END" THEN "done" ELSE "running"
             /\ twin' = twin_assistant(reply)
    /\ slots' = assistant_slots(slots)
    /\ steps' = steps + 1
    /\ UNCHANGED <<inflight, results, order, failures, handle_all, mcp_tools, llm>>
    /\ UNCHANGED tool_vars

\* ToolNode starts: one execution per tool call of the last AI message
ToolsStart ==
    /\ status = "running"
    /\ next = "tools"
    /\ StepAllowed
    /\ inflight = <<>>
    /\ inflight' = messages[Len(messages)].tool_calls
    /\ results' = [ i \in 1..Len(messages[Len(messages)].tool_calls) |-> NoResult ]
    /\ order' = <<>>
    /\ UNCHANGED <<messages, slots, next, steps, status, failures, handle_all,
                   mcp_tools, llm, twin>>
    /\ UNCHANGED tool_vars

\* the outcomes of running one call: an unknown tool name and invalid
\* arguments give an error ToolMessage; a tool that runs returns or raises
CallOutcomes(call) ==
    IF call.name \notin tools THEN {"unknown_tool"}
    ELSE IF call.args = "invalid" THEN {"invalid_args"}
    ELSE IF failures < MaxFailures THEN {"returns", "raises"}
    ELSE {"returns"}

\* whether ToolNode turns this outcome into a ToolMessage (else it re-raises)
Handled(outcome) == outcome # "raises" \/ handle_all

\* one of the concurrently running calls completes
ToolRun(i) ==
    /\ status = "running"
    /\ inflight # <<>>
    /\ i \in 1..Len(inflight)
    /\ results[i] = NoResult
    /\ \E outcome \in CallOutcomes(inflight[i]) :
         /\ failures' = IF outcome = "raises" THEN failures + 1 ELSE failures
         /\ IF Handled(outcome)
            THEN /\ results' = [results EXCEPT ![i] =
                        ToolMessage(inflight[i],
                                    IF outcome = "returns" THEN "success" ELSE "error")]
                 /\ order' = Append(order, i)
                 /\ UNCHANGED <<status, inflight, twin>>
            ELSE /\ status' = "tool_exception"
                 /\ twin' = twin_tool_exception
                 /\ inflight' = <<>>
                 /\ results' = <<>>
                 /\ UNCHANGED order
    /\ UNCHANGED <<messages, slots, next, steps, handle_all, mcp_tools, llm>>
    /\ UNCHANGED tool_vars

\* mutant: the ToolMessages are returned in the order the calls completed
ToolOutputs_AsCompleted == [ i \in 1..Len(inflight) |-> results[order[i]] ]

\* the ToolMessages ToolNode returns: one per call, in the order of the calls
ToolOutputs == [ i \in 1..Len(inflight) |-> results[i] ]

\* every call has completed: ToolNode returns, the edge tools -> assistant
ToolsFinish ==
    /\ status = "running"
    /\ inflight # <<>>
    /\ \A i \in 1..Len(inflight) : results[i] # NoResult
    /\ messages' = add_messages(messages, ToolOutputs)
    /\ next' = tools_edge
    /\ twin' = twin_tools(ToolOutputs)
    /\ steps' = steps + 1
    /\ inflight' = <<>>
    /\ results' = <<>>
    /\ UNCHANGED <<slots, status, order, failures, handle_all, mcp_tools, llm>>
    /\ UNCHANGED tool_vars

\* a node is due but the recursion limit is used up: GraphRecursionError
RecursionError ==
    /\ status = "running"
    /\ next # "END"
    /\ inflight = <<>>
    /\ ~StepAllowed
    /\ status' = "recursion_error"
    /\ twin' = twin_recursion_error
    /\ UNCHANGED <<messages, slots, next, steps, inflight, results, order,
                   failures, handle_all, mcp_tools, llm>>
    /\ UNCHANGED tool_vars

Next ==
    \/ Assistant
    \/ ToolsStart
    \/ \E i \in 1..MaxCalls : ToolRun(i)
    \/ ToolsFinish
    \/ RecursionError

Spec == Init /\ [][Next]_vars

-----------------------------------------------------------------------------
(* Properties of the turn *)

IsLast(i) == i = Len(messages)

HasCalls(i) == messages[i].type = "ai" /\ Len(messages[i].tool_calls) > 0

\* model invocations made in this turn
Invocations == NumAI(messages)

\* tool dispatch steps made or under way in this turn
Dispatches ==
    Cardinality({ i \in 1..Len(messages) : HasCalls(i) /\ ~IsLast(i) })
    + (IF inflight # <<>> THEN 1 ELSE 0)

\* C1: the graph steps of one turn (model invocations plus tool dispatches)
\* never exceed the recursion limit; the turn fails with the recursion error
\* only with the limit used up and a node still due; and a model that puts a
\* tool call in every response never ends the turn with an answer.
C1_TurnBudget ==
    /\ Invocations + Dispatches <= DEFAULT_RECURSION_LIMIT
    /\ status = "recursion_error" =>
         /\ Invocations + Dispatches = DEFAULT_RECURSION_LIMIT
         /\ HasCalls(Len(messages))
         /\ inflight = <<>>
    /\ llm = "looping" => status # "done"

C1_Witness ==
    /\ llm = "looping"
    /\ status = "recursion_error"
    /\ Invocations + Dispatches = DEFAULT_RECURSION_LIMIT

\* the tool messages right after message i answer its calls, one each, in order
Answered(i) ==
    LET calls == messages[i].tool_calls
    IN  /\ i + Len(calls) <= Len(messages)
        /\ \A j \in 1..Len(calls) :
             /\ messages[i + j].type = "tool"
             /\ messages[i + j].tool_call_id = calls[j].id
        /\ i + Len(calls) < Len(messages) => messages[i + Len(calls) + 1].type = "ai"

\* C2: an AI message with tool calls c1..ck is either the last message (its
\* dispatch is still due or under way) or is followed by exactly k tool
\* messages answering c1..ck in that order and then by the next AI message;
\* every tool message answers a call of the AI message before it, no call id
\* is answered twice, and the model is invoked again only after the results.
C2_OneResultPerCallInOrder ==
    /\ \A i \in 1..Len(messages) : HasCalls(i) => IsLast(i) \/ Answered(i)
    /\ \A p \in 1..Len(messages) :
         messages[p].type = "tool" =>
           \E i \in 1..(p - 1) :
             /\ HasCalls(i)
             /\ p - i <= Len(messages[i].tool_calls)
             /\ messages[i].tool_calls[p - i].id = messages[p].tool_call_id
    /\ \A p, q \in 1..Len(messages) :
         (messages[p].type = "tool" /\ messages[q].type = "tool" /\ p # q)
           => messages[p].tool_call_id # messages[q].tool_call_id
    /\ (status = "running" /\ next = "assistant") => ~HasCalls(Len(messages))

\* two calls were dispatched, the second completed first, the results are in
C2_Witness ==
    /\ order = <<2, 1>>
    /\ inflight = <<>>
    /\ Len(messages) = 4
    /\ HasCalls(2)
    /\ messages[4].type = "tool"

\* what the state shows of the route taken after a model response
C3_State ==
    /\ messages[Len(messages)].type = "ai" =>
         /\ HasCalls(Len(messages)) <=> next = "tools"
         /\ ~HasCalls(Len(messages)) <=> status = "done"
    /\ status = "done" =>
         /\ messages[Len(messages)].type = "ai"
         /\ next = "END"
         /\ inflight = <<>>

\* C3: after a model response the graph is bound for the tool node exactly
\* when the response carries tool calls; otherwise the turn is over, the
\* response is the last message, and no step of the graph is possible any more.
C3_DispatchIffToolCalls ==
    /\ C3_State
    /\ status = "done" => ~ENABLED Next

C3_Witness ==
    /\ status = "done"
    /\ Len(messages) > 2
    /\ messages[Len(messages) - 1].type = "tool"

\* C8: no tool call aborts the turn: a call that names an unknown tool, has
\* invalid arguments or whose tool raises is answered by an error ToolMessage.
C8_ToolErrorsNeverAbort ==
    /\ status # "tool_exception"
    /\ \A i \in 1..Len(messages) :
         (HasCalls(i) /\ ~IsLast(i)) =>
           \A j \in 1..Len(messages[i].tool_calls) :
             LET call == messages[i].tool_calls[j]
             IN  (call.name \notin tools \/ call.args = "invalid")
                   => /\ i + j <= Len(messages)
                      /\ messages[i + j].tool_call_id = call.id
                      /\ messages[i + j].status = "error"

\* C14: a turn started with other slot values that receives the same model
\* responses has the same conversation (the same tool calls dispatched, the
\* same results appended), is at the same node after the same number of steps
\* and ends at the same point in the same way.
C14_SlotsNeverGate ==
    /\ twin.messages = messages
    /\ twin.next = next
    /\ twin.steps = steps
    /\ twin.status = status

\* both turns ended with an answer after a dispatch, and their slots differ
C14_Witness ==
    /\ status = "done"
    /\ twin.status = "done"
    /\ twin.slots # slots
    /\ Dispatches = 1
    /\ twin.messages[3].type = "tool"

IsPrefix(s, t) == Len(s) <= Len(t) /\ SubSeq(t, 1, Len(s)) = s

\* C17: every step leaves the conversation it found as a prefix of the
\* conversation it leaves: no message is removed, replaced or reordered.
C17_AppendOnly == [][IsPrefix(messages, messages')]_vars

\* the looping turn ran to the limit: one human message and one message per step
C17_Witness ==
    /\ status = "recursion_error"
    /\ Len(messages) = DEFAULT_RECURSION_LIMIT + 1
    /\ messages[1].type = "human"
    /\ messages[Len(messages)].type = "ai"

\* C19: the steps of a turn alternate, model first: the first step is a model
\* invocation; a dispatch is due only right after a model response with tool
\* calls; after a dispatch step the model invocation is due, the recursion
\* limit allows it and no dispatch can be made; a turn that has ended with an
\* answer made one more model invocation than dispatch steps.
C19_StrictAlternation ==
    /\ steps = 0 => (next = "assistant" /\ status = "running")
    /\ (status = "running" /\ next = "tools") =>
         /\ HasCalls(Len(messages))
         /\ steps % 2 = 1
    /\ (status = "running" /\ next = "assistant") =>
         /\ messages[Len(messages)].type \in {"human", "tool"}
         /\ steps % 2 = 0
         /\ StepAllowed
         /\ ~ENABLED ToolsStart
    /\ (status = "running" /\ messages[Len(messages)].type = "tool") =>
         next = "assistant"
    /\ status = "done" =>
         /\ Invocations = Dispatches + 1
         /\ steps = Invocations + Dispatches

\* a turn that ended after the steps model, dispatch, model
C19_Witness ==
    /\ status = "done"
    /\ steps = 3
    /\ Invocations = 2
    /\ Dispatches = 1

\* C20: the assistant step appends exactly one model response to the
\* conversation and leaves the four slots as they were, in the turn main()
\* starts and in a turn started with slots set; the slots main() starts unset
\* are unset in every state of the turn.
C20_AssistantFrame ==
    /\ [](slots = NoSlots)
    /\ [][Assistant =>
            /\ slots' = slots
            /\ twin'.slots = twin.slots
            /\ Len(messages') = Len(messages) + 1
            /\ IsPrefix(messages, messages')
            /\ messages'[Len(messages')].type = "ai"]_vars

\* the assistant step ran twice and the slots are as they started
C20_Witness ==
    /\ Invocations = 2
    /\ slots = NoSlots
    /\ twin.slots.target_language = "English"
    /\ twin.slots.number_of_words = "5"

-----------------------------------------------------------------------------
(* Word selection: get_n_random_words, get_n_random_words_by_difficulty_level *)

\* keys of a word list at most
MaxKeys == 3
\* largest count asked for
MaxN == 4

Keys == 1..MaxKeys
WordForms == {"casa", "perro"}
Absent == "<absent>"
\* the word_difficulty of an entry: a level as the file spells it, or no such key
EntryLevels == {"beginner", "Advanced", Absent}
\* the difficulty_level a caller passes
AskedLevels == {"beginner", "BEGINNER", "advanced"}

Entries == [word : WordForms, word_difficulty : EntryLevels]

\* the word-list files: a JSON object from keys to entries
WordLists == UNION { [ks -> Entries] : ks \in SUBSET Keys }

Catalogs == { [exists |-> TRUE, word_list |-> wl] : wl \in WordLists } \cup {NoFile}

\* str.lower() on the strings of the model
lower(str) ==
    CASE str \in {"beginner", "Beginner", "BEGINNER"} -> "beginner"
      [] str \in {"advanced", "Advanced", "ADVANCED"} -> "advanced"
      [] OTHER -> str

\* v.get("word_difficulty", "")
get_word_difficulty(v) ==
    IF v.word_difficulty = Absent THEN "" ELSE v.word_difficulty

\* mutant: the draw is made with replacement
random_sample_WithReplacement(population, k) == [1..k -> population]

\* the outcomes of random.sample(population, k), 0 <= k <= len(population):
\* the lists of k elements of the population without repetition
random_sample(population, k) ==
    { sq \in [1..k -> population] : \A i, j \in 1..k : i # j => sq[i] # sq[j] }

Returned(value) == [kind |-> "list", value |-> value]
Raised(exc) == [kind |-> "raise", value |-> exc]

FileNotFound == "Error: File not found at data/<language>/word-list-cleaned.json"
NoWordsFound == "Error: No words found for <difficulty_level> in <language>"

\* the returns of get_n_random_words(language, n) on the language's file
get_n_random_words(file, n) ==
    IF ~file.exists THEN { Returned(<<FileNotFound>>) }
    ELSE LET word_list == file.word_list
             keys == DOMAIN word_list
             m == IF n > Cardinality(keys) THEN Cardinality(keys) ELSE n
         IN  IF m < 0 THEN { Raised("ValueError") }
             ELSE { Returned([ i \in 1..m |-> word_list[random_keys[i]].word ]) :
                      random_keys \in random_sample(keys, m) }

\* keys of the dict comprehension `filtered`
filtered_keys(word_list, difficulty_level) ==
    { k \in DOMAIN word_list :
        lower(get_word_difficulty(word_list[k])) = lower(difficulty_level) }

\* the returns of get_n_random_words_by_difficulty_level(language, difficulty_level, n)
get_n_random_words_by_difficulty_level(file, difficulty_level, n) ==
    IF ~file.exists THEN { Returned(<<FileNotFound>>) }
    ELSE LET word_list == file.word_list
             keys == filtered_keys(word_list, difficulty_level)
             m == IF n > Cardinality(keys) THEN Cardinality(keys) ELSE n
         IN  IF keys = {} THEN { Returned(<<NoWordsFound>>) }
             ELSE IF m < 0 THEN { Raised("ValueError") }
             ELSE { Returned([ i \in 1..m |-> word_list[random_keys[i]].word ]) :
                      random_keys \in random_sample(keys, m) }

InitWords ==
    /\ GraphIdle
    /\ op = "none"
    /\ catalog \in Catalogs
    /\ tool_args = NoCall
    /\ ret = NoCall
    /\ requests_log = <<>>

\* one call of get_n_random_words; the file is opened for reading only
GetNRandomWords ==
    /\ op = "none"
    /\ \E n \in -1..MaxN :
         /\ tool_args' = [kind |-> "args", n |-> n, difficulty_level |-> None]
         /\ ret' \in get_n_random_words(catalog, n)
    /\ op' = "get_n_random_words"
    /\ UNCHANGED <<catalog, requests_log>>
    /\ UNCHANGED graph_vars

\* one call of get_n_random_words_by_difficulty_level
GetNRandomWordsByDifficultyLevel ==
    /\ op = "none"
    /\ \E n \in -1..MaxN, level \in AskedLevels :
         /\ tool_args' = [kind |-> "args", n |-> n, difficulty_level |-> level]
         /\ ret' \in get_n_random_words_by_difficulty_level(catalog, level, n)
    /\ op' = "get_n_random_words_by_difficulty_level"
    /\ UNCHANGED <<catalog, requests_log>>
    /\ UNCHANGED graph_vars

NextWords == GetNRandomWords \/ GetNRandomWordsByDifficultyLevel

SpecWords == InitWords /\ [][NextWords]_vars

Min(a, b) == IF a < b THEN a ELSE b

CatalogSize == Cardinality(DOMAIN catalog.word_list)

\* C9 as stated: sample returns min(n, catalog size) words of the catalog,
\* pairwise distinct, for every catalog and every count n (a count is >= 0).
C9_Original ==
    (op = "get_n_random_words" /\ catalog.exists /\ tool_args.n >= 0) =>
        /\ ret.kind = "list"
        /\ Len(ret.value) = Min(tool_args.n, CatalogSize)
        /\ \A i \in 1..Len(ret.value) :
             \E k \in DOMAIN catalog.word_list : ret.value[i] = catalog.word_list[k].word
        /\ \A i, j \in 1..Len(ret.value) : i # j => ret.value[i] # ret.value[j]

\* what one call of sample returned, for a count n >= 0
C9_State ==
    (op = "get_n_random_words" /\ catalog.exists /\ tool_args.n >= 0) =>
        /\ ret.kind = "list"
        /\ Len(ret.value) = Min(tool_args.n, CatalogSize)
        /\ \E ks \in [1..Len(ret.value) -> DOMAIN catalog.word_list] :
             /\ \A i, j \in 1..Len(ret.value) : i # j => ks[i] # ks[j]
             /\ \A i \in 1..Len(ret.value) : ret.value[i] = catalog.word_list[ks[i]].word

\* C9 (amended): for every catalog and every n >= 0, sample returns exactly
\* min(n, catalog size) words, which are the words of pairwise distinct
\* entries of that catalog (two entries may carry the same word), and no
\* call changes the catalog.
C9_SampleDistinctEntries ==
    /\ []C9_State
    /\ [][catalog' = catalog]_vars

\* three entries, two of them with the same word, all three drawn
C9_Witness ==
    /\ op = "get_n_random_words"
    /\ catalog.exists
    /\ CatalogSize = 3
    /\ tool_args.n = MaxN
    /\ ret.kind = "list"
    /\ Len(ret.value) = 3
    /\ ret.value[1] = ret.value[2]

\* C10: every element of the list sampleByDifficulty returns is the word of a
\* catalog entry whose difficulty is the requested level, whatever the outcome.
C10_OnlyMatchingWords ==
    (op = "get_n_random_words_by_difficulty_level" /\ ret.kind = "list") =>
        \A i \in 1..Len(ret.value) :
            \E k \in DOMAIN catalog.word_list :
                /\ lower(get_word_difficulty(catalog.word_list[k]))
                     = lower(tool_args.difficulty_level)
                /\ ret.value[i] = catalog.word_list[k].word

\* C11: word selection fails with a typed failure, and returns no word list,
\* when the language has no catalog file (both operations) and when the
\* difficulty filter leaves no entry.
C11_TypedFailures ==
    /\ (op \in {"get_n_random_words", "get_n_random_words_by_difficulty_level"}
          /\ ~catalog.exists)
         => (ret.kind = "raise" /\ ret.value = "CatalogNotFound")
    /\ (op = "get_n_random_words_by_difficulty_level" /\ catalog.exists
          /\ filtered_keys(catalog.word_list, tool_args.difficulty_level) = {})
         => (ret.kind = "raise" /\ ret.value = "NoMatchingWords")

-----------------------------------------------------------------------------
(* Translation: translate_words *)

\* words in one call at most
MaxWords == 2
\* pieces of one reply text at most
MaxReply == 4

\* A reply text is a sequence of pieces:
\*   open    {"translations": [        (has an opening brace, no closing one)
\*   close   ]}                        (has a closing brace, no opening one)
\*   item    {"source": s, "target": t}
\*   txt     text without braces
Piece(kind, src, tgt) == [kind |-> kind, source |-> src, target |-> tgt]

Pieces ==
    { Piece("open", "", ""), Piece("close", "", ""), Piece("txt", "", "") }
    \cup { Piece("item", src, tgt) : src \in WordForms, tgt \in {"house", "dog"} }
    \cup { Piece("item", "Casa", "house") }

ReplyTexts == SeqsUpTo(Pieces, MaxReply)

NoMatch == [matched |-> FALSE, group |-> <<>>]

\* re.search(r"\{.*\}", text, re.DOTALL): from the first opening brace of the
\* text to its last closing brace (the pattern is greedy), if that is a span
re_search(text) ==
    LET opening == { i \in 1..Len(text) : text[i].kind \in {"open", "item"} }
        closing == { i \in 1..Len(text) : text[i].kind \in {"close", "item"} }
    IN  IF opening = {} \/ closing = {} THEN NoMatch
        ELSE LET first == CHOOSE i \in opening : \A j \in opening : i <= j
                 last == CHOOSE i \in closing : \A j \in closing : j <= i
             IN  IF first <= last
                 THEN [matched |-> TRUE, group |-> SubSeq(text, first, last)]
                 ELSE NoMatch

\* the JSON value that starts at piece i of str, and where it ends:
\* a pair object, or a translations object around a list of values
RECURSIVE parse_value(_, _), parse_list(_, _, _)
parse_value(str, i) ==
    IF i > Len(str) THEN [ok |-> FALSE, end |-> i, value |-> <<>>]
    ELSE IF str[i].kind = "item"
    THEN [ok |-> TRUE, end |-> i + 1,
          value |-> [kind |-> "pair", source |-> str[i].source,
                     target |-> str[i].target]]
    ELSE IF str[i].kind = "open" THEN parse_list(str, i + 1, <<>>)
    ELSE [ok |-> FALSE, end |-> i, value |-> <<>>]

parse_list(str, i, acc) ==
    IF i > Len(str) THEN [ok |-> FALSE, end |-> i, value |-> <<>>]
    ELSE IF str[i].kind = "close"
    THEN [ok |-> TRUE, end |-> i + 1,
          value |-> [kind |-> "dict", translations |-> acc]]
    ELSE LET element == parse_value(str, i)
         IN  IF element.ok
             THEN parse_list(str, element.end, Append(acc, element.value))
             ELSE [ok |-> FALSE, end |-> i, value |-> <<>>]

\* json.loads(str): the parsed object when str is one JSON value and nothing
\* else, or JSONDecodeError
json_loads(str) ==
    LET parsed == parse_value(str, 1)
    IN  IF parsed.ok /\ parsed.end = Len(str) + 1
        THEN parsed.value
        ELSE Raised("JSONDecodeError")

\* what the completion does: it raises, or it returns a text
Completions ==
    { [raised |-> TRUE, text |-> <<>>] }
    \cup { [raised |-> FALSE, text |-> t] : t \in ReplyTexts }

\* the return of translate_words(random_words, ...) given what model.invoke does
translate_words(random_words, completion) ==
    IF completion.raised THEN [kind |-> "error", error |-> "str(e)"]
    ELSE LET match == re_search(completion.text)
         IN  IF match.matched
             THEN IF json_loads(match.group).kind = "raise"
                  THEN [kind |-> "error", error |-> "str(e)"]
                  ELSE json_loads(match.group)
             ELSE [kind |-> "error", error |-> "Invalid JSON response"]

InitTranslate ==
    /\ GraphIdle
    /\ ToolsIdle

TranslateWords ==
    /\ op = "none"
    /\ \E random_words \in SeqsUpTo(WordForms, MaxWords), completion \in Completions :
         /\ tool_args' = [kind |-> "args", random_words |-> random_words,
                          completion |-> completion]
         /\ ret' = translate_words(random_words, completion)
    /\ op' = "translate_words"
    /\ UNCHANGED <<catalog, requests_log>>
    /\ UNCHANGED graph_vars

NextTranslate == TranslateWords

SpecTranslate == InitTranslate /\ [][NextTranslate]_vars

\* the completion returned a reply
Replied == op = "translate_words" /\ ~tool_args.completion.raised

\* the reply yields no object: no brace span, or a span that is not JSON
Unparseable(text) ==
    \/ ~re_search(text).matched
    \/ json_loads(re_search(text).group).kind = "raise"

\* C4: for every word list and every reply, translate returns a translation
\* list as long as the word list whose i-th pair has the i-th word as source.
\* Stated for the replies that yield an object; C5 states the others.
C4_LengthAndOrder ==
    (Replied /\ ~Unparseable(tool_args.completion.text)) =>
        /\ ret.kind = "dict"
        /\ Len(ret.translations) = Len(tool_args.random_words)
        /\ \A i \in 1..Len(ret.translations) :
             /\ ret.translations[i].kind = "pair"
             /\ ret.translations[i].source = tool_args.random_words[i]

\* C5: for a reply that cannot be parsed, translate returns every word paired
\* with itself, not an error.
C5_IdentityFallback ==
    (Replied /\ Unparseable(tool_args.completion.text)) =>
        /\ ret.kind = "dict"
        /\ ret.translations =
             [ i \in 1..Len(tool_args.random_words) |->
                 [kind |-> "pair", source |-> tool_args.random_words[i],
                  target |-> tool_args.random_words[i]] ]

\* C12: a completion call that raises (network, timeout) surfaces as a
\* failure, and a reply that was received never surfaces as an error.
C12_FailureKinds ==
    op = "translate_words" =>
        /\ tool_args.completion.raised => ret.kind = "error"
        /\ ~tool_args.completion.raised => ret.kind # "error"

\* str.capitalize() of the word forms
Capitalize(word) ==
    IF word = "casa" THEN "Casa"
    ELSE IF word = "perro" THEN "Perro"
    ELSE word

\* the object in the brace span of the reply
ParsedReply == json_loads(re_search(tool_args.completion.text).group)

\* the reply yields a translations object all of whose entries are pairs
ParsedPairs ==
    /\ Replied
    /\ ~Unparseable(tool_args.completion.text)
    /\ ParsedReply.kind = "dict"
    /\ \A j \in DOMAIN ParsedReply.translations :
         ParsedReply.translations[j].kind = "pair"

\* the targets the lookup built from entries has under key
Looked(entries, key) ==
    { entries[j].target : j \in { k \in DOMAIN entries : entries[k].source = key } }

\* the targets a word may resolve to: exact key, else capitalized key, else
\* the word itself
Resolved(entries, word) ==
    IF Looked(entries, word) # {} THEN Looked(entries, word)
    ELSE IF Looked(entries, Capitalize(word)) # {}
    THEN Looked(entries, Capitalize(word))
    ELSE {word}

\* C15: the target of each input word is the reply entry under exactly that
\* word, else the entry under its capitalized form, else the word itself, and
\* a reply entry whose source is no input word contributes nothing.
C15_ReconciliationPriority ==
    ParsedPairs =>
        /\ ret.kind = "dict"
        /\ \A i \in 1..Len(tool_args.random_words) :
             /\ i \in DOMAIN ret.translations
             /\ ret.translations[i].kind = "pair"
             /\ ret.translations[i].target
                  \in Resolved(ParsedReply.translations, tool_args.random_words[i])
        /\ \A j \in DOMAIN ret.translations :
             ret.translations[j].kind = "pair" =>
                 \E i \in 1..Len(tool_args.random_words) :
                     ret.translations[j].source = tool_args.random_words[i]

\* the two ordered attempts: the whole reply as one value; failing that, the
\* value that starts at the first opening brace, and nothing after it
FirstObject(text) ==
    LET opening == { i \in 1..Len(text) : text[i].kind \in {"open", "item"} }
    IN  IF json_loads(text).kind # "raise"
        THEN [ok |-> TRUE, value |-> json_loads(text)]
        ELSE IF opening = {} THEN [ok |-> FALSE, value |-> <<>>]
        ELSE LET first == CHOOSE i \in opening : \A j \in opening : i <= j
             IN  [ok |-> parse_value(text, first).ok,
                  value |-> parse_value(text, first).value]

\* C16: the reply is parsed as a whole and, only if that fails, as its first
\* top-level object and nothing after it: a reply made of a valid object
\* followed by text with braces is parsed as that first object.
C16_FirstObjectOnly ==
    (Replied /\ FirstObject(tool_args.completion.text).ok) =>
        ret = FirstObject(tool_args.completion.text).value

-----------------------------------------------------------------------------
(* Deck building: create_anki_stack *)

\* cards in one call at most
MaxCards == 3

Card(src, tgt, frt, bck) == [source |-> src, target |-> tgt, front |-> frt, back |-> bck]

\* the dicts a card may be; Absent marks a key the dict does not have
CardShapes ==
    { Card("hola", "hello", Absent, Absent),
      Card(Absent, Absent, "hola", "hello"),
      Card("gato", "cat", "perro", "dog"),
      Card(Absent, Absent, Absent, Absent) }

\* what happens to one requests.post: the store answers without an error,
\* answers with an error, or the request fails (no connection, no JSON answer)
PostOutcomes == {"ok", "error_reply", "transport_failure"}

\* mutant: the front key is looked up before the source key
card_front_FrontFirst(card) ==
    IF card.front # Absent THEN card.front
    ELSE IF card.source # Absent THEN card.source
    ELSE ""

\* card.get("source", card.get("front", ""))
card_front(card) ==
    IF card.source # Absent THEN card.source
    ELSE IF card.front # Absent THEN card.front
    ELSE ""

\* card.get("target", card.get("back", ""))
card_back(card) ==
    IF card.target # Absent THEN card.target
    ELSE IF card.back # Absent THEN card.back
    ELSE ""

CreateDeckRequest(deck_name) ==
    [action |-> "createDeck", deck |-> deck_name, Front |-> "", Back |-> ""]

AddNoteRequest(deck_name, card) ==
    [action |-> "addNote", deck |-> deck_name,
     Front |-> card_front(card), Back |-> card_back(card)]

\* mutant: a failed create-deck request is not noticed
create_deck_failed_Ignored(outcome) == FALSE

\* the try/except around the create-deck request: it catches a failed request
create_deck_failed(outcome) == outcome = "transport_failure"

\* The call runs request by request: each requests.post blocks until the store
\* answers or the request fails; no timeout is passed to requests.post.

\* what a store does with a request: one of PostOutcomes, or it never answers
StoreBehaviours == PostOutcomes \cup {"no_response"}

\* the call is blocked in a requests.post
Waiting(success_count, errors) ==
    [kind |-> "waiting", success_count |-> success_count, errors |-> errors]

\* what the store does with the request the call is blocked in
AwaitedOutcome ==
    IF Len(requests_log) = 1
    THEN tool_args.store.deck
    ELSE tool_args.store.notes[Len(requests_log) - 1]

\* the loop head with card i next: post its request, or return the summary
loop_from(i, success_count, errors) ==
    IF i > Len(tool_args.cards)
    THEN [posted |-> requests_log,
          ret |-> [kind |-> "str", text |-> "Success!", deck |-> tool_args.deck_name,
                   success_count |-> success_count, errors |-> errors]]
    ELSE [posted |-> Append(requests_log,
                            AddNoteRequest(tool_args.deck_name, tool_args.cards[i])),
          ret |-> Waiting(success_count, errors)]

\* the call starts and posts the create-deck request
PostCreateDeck ==
    /\ op = "none"
    /\ \E cards \in SeqsUpTo(CardShapes, MaxCards), deck \in StoreBehaviours :
         \E notes \in [1..Len(cards) -> StoreBehaviours] :
           tool_args' = [kind |-> "args", deck_name |-> "Spanish::Easy",
                         cards |-> cards, store |-> [deck |-> deck, notes |-> notes]]
    /\ op' = "create_anki_stack"
    /\ requests_log' = <<CreateDeckRequest("Spanish::Easy")>>
    /\ ret' = Waiting(0, 0)
    /\ UNCHANGED catalog
    /\ UNCHANGED graph_vars

\* the blocked requests.post ends: the store answered, or the request failed
PostEnds ==
    /\ op = "create_anki_stack"
    /\ ret.kind = "waiting"
    /\ AwaitedOutcome # "no_response"
    /\ LET after ==
             IF Len(requests_log) = 1
             THEN IF create_deck_failed(AwaitedOutcome)
                  THEN [posted |-> requests_log,
                        ret |-> [kind |-> "str", text |-> "Error connecting to Anki",
                                 deck |-> tool_args.deck_name,
                                 success_count |-> 0, errors |-> 0]]
                  ELSE loop_from(1, 0, 0)
             ELSE IF AwaitedOutcome = "transport_failure"
                  THEN [posted |-> requests_log, ret |-> Raised("RequestException")]
                  ELSE IF AwaitedOutcome = "error_reply"
                  THEN loop_from(Len(requests_log), ret.success_count, ret.errors + 1)
                  ELSE loop_from(Len(requests_log), ret.success_count + 1, ret.errors)
       IN  /\ requests_log' = after.posted
           /\ ret' = after.ret
    /\ UNCHANGED <<op, catalog, tool_args>>
    /\ UNCHANGED graph_vars

InitDeck ==
    /\ GraphIdle
    /\ ToolsIdle

NextDeck == PostCreateDeck \/ PostEnds

SpecDeck == InitDeck /\ [][NextDeck]_vars

\* the call has ended: it returned or raised
Ended == op = "create_anki_stack" /\ ret.kind # "waiting"

\* C6: the create-deck request is the first request and the only one of its
\* kind; no add-note request is posted while it is awaited; when it fails at
\* transport level the call posts no add-note request and returns the
\* connection error.
C6_DeckFirstFailFast ==
    op = "create_anki_stack" =>
        /\ Len(requests_log) >= 1
        /\ requests_log[1].action = "createDeck"
        /\ \A i \in 2..Len(requests_log) : requests_log[i].action = "addNote"
        /\ Len(requests_log) > 1 => tool_args.store.deck \in {"ok", "error_reply"}
        /\ tool_args.store.deck = "transport_failure" =>
             /\ Len(requests_log) = 1
             /\ Ended => (ret.kind = "str" /\ ret.text = "Error connecting to Anki")

C6_Witness ==
    /\ Ended
    /\ tool_args.store.deck = "transport_failure"
    /\ Len(tool_args.cards) = MaxCards
    /\ ret.kind = "str"
    /\ ret.text = "Error connecting to Anki"

Failed(notes) == { i \in DOMAIN notes : notes[i] # "ok" }

\* C7: with the deck created, a call that has ended posted every card once in
\* list order whatever happened to the cards before it, and returned the
\* summary with succeeded = cards that did not fail and one error per failed
\* card.
C7_EveryCardAttempted ==
    (Ended /\ tool_args.store.deck = "ok") =>
        /\ Len(requests_log) = 1 + Len(tool_args.cards)
        /\ \A i \in 1..Len(tool_args.cards) :
             requests_log[i + 1] = AddNoteRequest(tool_args.deck_name, tool_args.cards[i])
        /\ ret.kind = "str"
        /\ ret.text = "Success!"
        /\ ret.success_count = Len(tool_args.cards) - Cardinality(Failed(tool_args.store.notes))
        /\ ret.errors = Cardinality(Failed(tool_args.store.notes))

\* C18: the add-note request of every card has as front the card's source
\* value when the card has a source key and else its front value, and as back
\* its target value when present and else its back value (the empty string
\* when the card has neither key).
C18_FieldMapping ==
    op = "create_anki_stack" =>
        \A i \in 2..Len(requests_log) :
            LET card == tool_args.cards[i - 1]
            IN  /\ requests_log[i].action = "addNote"
                /\ card.source # Absent => requests_log[i].Front = card.source
                /\ (card.source = Absent /\ card.front # Absent)
                     => requests_log[i].Front = card.front
                /\ (card.source = Absent /\ card.front = Absent)
                     => requests_log[i].Front = ""
                /\ card.target # Absent => requests_log[i].Back = card.target
                /\ (card.target = Absent /\ card.back # Absent)
                     => requests_log[i].Back = card.back
                /\ (card.target = Absent /\ card.back = Absent)
                     => requests_log[i].Back = ""

\* a {source, target} card, a {front, back} card and a card with all four
\* keys were posted; the first two gave the same front and back
C18_Witness ==
    /\ Ended
    /\ Len(requests_log) = 4
    /\ tool_args.cards[1] = Card("hola", "hello", Absent, Absent)
    /\ tool_args.cards[2] = Card(Absent, Absent, "hola", "hello")
    /\ tool_args.cards[3] = Card("gato", "cat", "perro", "dog")
    /\ requests_log[2] = requests_log[3]
    /\ requests_log[4].Front = "gato"

\* C13: a call blocked in a request to the store can always go on: the
\* request ends with an answer, a failure or a timeout, so no call waits
\* forever.
C13_NoWaitForever ==
    (op = "create_anki_stack" /\ ret.kind = "waiting") => ENABLED NextDeck

=============================================================================
